---- MODULE Spec2Model ----
(***************************************************************************)
(* Model of the checkpointing core of Any-code:                            *)
(*   src-tauri/src/commands/simple_git.rs  (repository state machine and   *)
(*                                          reset-safety classifier)      *)
(*   src-tauri/src/mcp/registry.rs         (MCP server registry)           *)
(* The git store is modelled by the record `repo`; every operation of the *)
(* source is an operator over that record plus the outcomes the process   *)
(* gateway (std::process::Command::output) gives to each command it runs. *)
(* The registry file is `file`, the live server set of the external engine*)
(* is `engineServers`, `last` is the call in progress and its result, and *)
(* `procs` holds the positions of callers that run concurrently.          *)
(***************************************************************************)
EXTENDS Integers, Sequences, FiniteSets, TLC

VARIABLES repo, last, file, engineServers, procs

vars == <<repo, last, file, engineServers, procs>>

(***************************************************************************)
(* Bounds of the model.                                                    *)
(***************************************************************************)
\* commits a repository of the bootstrap specification may hold
MaxCommits == 2
\* commits a history drawn for the reset-safety classifier may hold
MaxHistory == 7
\* entries the stash of a repository may hold
MaxStash == 2
\* commits a history drawn for the summary cap may hold
MaxLongHistory == 12
\* the longest sequence of registry calls one caller makes in a session
MaxCalls == 3

\* names of the files a working tree may hold
Files == {"main.rs", "notes.md"}

(***************************************************************************)
(* The process gateway.  Command::output() either cannot spawn the process *)
(* ("spawn"), or the process runs and exits non-zero ("exit"), or it       *)
(* succeeds ("ok").  rev-parse's stdout may in addition not be UTF-8.      *)
(***************************************************************************)
Faults == {"ok", "spawn", "exit"}
RevParseFaults == Faults \cup {"utf8"}

\* the outcome of a command: an injected gateway failure, else what git does
Run(fault, semantic) == IF fault # "ok" THEN fault ELSE semantic

Call(cmd, fault, out) == [cmd |-> cmd, fault |-> fault, out |-> out]

(***************************************************************************)
(* Strings: the text conversions the code applies to command output.      *)
(***************************************************************************)
Whitespace == {" ", "\t", "\n", "\r"}

RECURSIVE TrimStart(_)
TrimStart(s) ==
    IF Len(s) > 0 /\ SubSeq(s, 1, 1) \in Whitespace
    THEN TrimStart(SubSeq(s, 2, Len(s)))
    ELSE s

RECURSIVE TrimEnd(_)
TrimEnd(s) ==
    IF Len(s) > 0 /\ SubSeq(s, Len(s), Len(s)) \in Whitespace
    THEN TrimEnd(SubSeq(s, 1, Len(s) - 1))
    ELSE s

\* str::trim
Trim(s) == TrimEnd(TrimStart(s))

\* str::contains
Contains(s, pat) ==
    \E i \in 1..(Len(s) - Len(pat) + 1) : SubSeq(s, i, i + Len(pat) - 1) = pat

\* str::to_lowercase, for the ASCII letters
UpperToLower ==
    [c \in {"A","B","C","D","E","F","G","H","I","J","K","L","M","N","O","P","Q",
            "R","S","T","U","V","W","X","Y","Z"} |->
        CASE c = "A" -> "a" [] c = "B" -> "b" [] c = "C" -> "c" [] c = "D" -> "d"
          [] c = "E" -> "e" [] c = "F" -> "f" [] c = "G" -> "g" [] c = "H" -> "h"
          [] c = "I" -> "i" [] c = "J" -> "j" [] c = "K" -> "k" [] c = "L" -> "l"
          [] c = "M" -> "m" [] c = "N" -> "n" [] c = "O" -> "o" [] c = "P" -> "p"
          [] c = "Q" -> "q" [] c = "R" -> "r" [] c = "S" -> "s" [] c = "T" -> "t"
          [] c = "U" -> "u" [] c = "V" -> "v" [] c = "W" -> "w" [] c = "X" -> "x"
          [] c = "Y" -> "y" [] c = "Z" -> "z"]

RECURSIVE ToLowercase(_)
ToLowercase(s) ==
    IF s = "" THEN ""
    ELSE LET c == SubSeq(s, 1, 1)
         IN  (IF c \in DOMAIN UpperToLower THEN UpperToLower[c] ELSE c)
                \o ToLowercase(SubSeq(s, 2, Len(s)))

\* position of the first line feed of s, 0 if it has none
RECURSIVE FirstLineFeed(_, _)
FirstLineFeed(s, i) ==
    IF i > Len(s) THEN 0
    ELSE IF SubSeq(s, i, i) = "\n" THEN i
    ELSE FirstLineFeed(s, i + 1)

\* a line without the carriage return that precedes its line feed
StripCarriageReturn(line) ==
    IF Len(line) > 0 /\ SubSeq(line, Len(line), Len(line)) = "\r"
    THEN SubSeq(line, 1, Len(line) - 1)
    ELSE line

\* str::lines: split at "\n" or "\r\n"; the last line needs no line end
RECURSIVE Lines(_)
Lines(s) ==
    IF s = "" THEN <<>>
    ELSE LET i == FirstLineFeed(s, 1)
         IN  IF i = 0 THEN <<s>>
             ELSE <<StripCarriageReturn(SubSeq(s, 1, i - 1))>>
                    \o Lines(SubSeq(s, i + 1, Len(s)))

DigitValue ==
    [c \in {"0","1","2","3","4","5","6","7","8","9"} |->
        CASE c = "0" -> 0 [] c = "1" -> 1 [] c = "2" -> 2 [] c = "3" -> 3
          [] c = "4" -> 4 [] c = "5" -> 5 [] c = "6" -> 6 [] c = "7" -> 7
          [] c = "8" -> 8 [] c = "9" -> 9]

\* str::parse::<usize>: the number a string of decimal digits spells, -1 (an
\* error) for anything else
RECURSIVE ParseDigits(_, _)
ParseDigits(s, acc) ==
    IF s = "" THEN acc
    ELSE LET c == SubSeq(s, 1, 1)
         IN  IF c \in DOMAIN DigitValue
             THEN ParseDigits(SubSeq(s, 2, Len(s)), 10 * acc + DigitValue[c])
             ELSE -1

ParseUsize(s) == IF s = "" THEN -1 ELSE ParseDigits(s, 0)

\* [String]::join
RECURSIVE Join(_, _)
Join(parts, sep) ==
    IF parts = <<>> THEN ""
    ELSE IF Len(parts) = 1 THEN parts[1]
    ELSE parts[1] \o sep \o Join(Tail(parts), sep)

\* Iterator::filter
RECURSIVE SelectNonBlank(_)
SelectNonBlank(lines) ==
    IF lines = <<>> THEN <<>>
    ELSE (IF Trim(lines[1]) # "" THEN <<lines[1]>> ELSE <<>>)
            \o SelectNonBlank(Tail(lines))

\* Iterator::take
Take(seq, n) == SubSeq(seq, 1, IF Len(seq) < n THEN Len(seq) ELSE n)

(***************************************************************************)
(* The git store.                                                          *)
(***************************************************************************)
\* object id of the i-th commit created in the store
CommitId(i) == "c" \o ToString(i)

BootstrapMessage == "[Claude Workbench] Initial commit - preserving existing code"

\* tree of the commit head points at (the empty tree before the first commit)
HeadTree(r) == IF r.head = 0 THEN {} ELSE r.commits[r.head].tree

\* `git init`
GitInit(r, fault) ==
    LET out == Run(fault, "ok")
    IN  [repo |-> IF out = "ok" THEN [r EXCEPT !.hasGitDir = TRUE] ELSE r,
         call |-> Call("init", fault, out)]

\* `git config <key> <value>`: the committer identity lives outside the store's
\* history; a commit that finds no identity is one of the ways `git commit`
\* exits non-zero, which the gateway outcome of the commit covers
GitConfig(r, key, fault) ==
    LET out == Run(fault, IF r.hasGitDir THEN "ok" ELSE "exit")
    IN  [repo |-> r, call |-> Call("config " \o key, fault, out)]

\* `git add -A`: the index becomes the working tree
GitAddAll(r, fault) ==
    LET out == Run(fault, IF r.hasGitDir THEN "ok" ELSE "exit")
    IN  [repo |-> IF out = "ok" THEN [r EXCEPT !.index = r.workTree] ELSE r,
         call |-> Call("add", fault, out)]

\* whether `git commit` has something to record
CommitAllowed(r, allowEmpty) == allowEmpty \/ r.index # HeadTree(r)

\* `git commit [--allow-empty] -m msg`: a new commit of the index on top of head
GitCommit(r, msg, allowEmpty, fault) ==
    LET sem == IF r.hasGitDir /\ CommitAllowed(r, allowEmpty)
               THEN "ok" ELSE "exit"
        out == Run(fault, sem)
        c   == [msg |-> msg, tree |-> r.index, parent |-> r.head]
    IN  [repo |-> IF out = "ok"
                  THEN [r EXCEPT !.commits = Append(r.commits, c),
                                 !.head = Len(r.commits) + 1]
                  ELSE r,
         call |-> Call("commit", fault, out)]

\* `git rev-parse HEAD`: stdout is the id of head and a line end
GitRevParseHead(r, fault) ==
    LET out == Run(fault, IF r.hasGitDir /\ r.head > 0 THEN "ok" ELSE "exit")
    IN  [stdout |-> IF out = "ok" THEN CommitId(r.head) \o "\n" ELSE "",
         call |-> Call("rev-parse", fault, out)]

\* `git status --porcelain`: one line per changed path
GitStatus(r, fault) ==
    LET out == Run(fault, IF r.hasGitDir THEN "ok" ELSE "exit")
        dirty == r.workTree # HeadTree(r) \/ r.index # HeadTree(r)
    IN  [stdout |-> IF out = "ok" /\ dirty THEN "?? path\n" ELSE "",
         call |-> Call("status", fault, out)]

\* `git stash save -u msg`: working tree and index, untracked files included,
\* go on top of the stash and are reset to head; needs a commit to reset to
GitStashSave(r, msg, fault) ==
    LET out == Run(fault, IF r.hasGitDir /\ r.head > 0 THEN "ok" ELSE "exit")
        entry == [msg |-> msg, tree |-> r.workTree, index |-> r.index]
    IN  [repo |-> IF out = "ok"
                  THEN [r EXCEPT !.stash = <<entry>> \o r.stash,
                                 !.workTree = HeadTree(r), !.index = HeadTree(r)]
                  ELSE r,
         call |-> Call("stash", fault, out)]

\* index of the commit an object id names, 0 if the store has no such object
Resolve(r, id) ==
    IF \E i \in 1..Len(r.commits) : CommitId(i) = id
    THEN CHOOSE i \in 1..Len(r.commits) : CommitId(i) = id
    ELSE 0

\* the commits reachable from commit i (i included)
RECURSIVE Ancestors(_, _)
Ancestors(r, i) == IF i = 0 THEN {} ELSE {i} \cup Ancestors(r, r.commits[i].parent)

\* the range from..to, newest first: reachable from `to` and not from `from`
RECURSIVE RangeFrom(_, _, _)
RangeFrom(r, i, excluded) ==
    IF i = 0 THEN <<>>
    ELSE (IF i \in excluded THEN <<>> ELSE <<i>>)
            \o RangeFrom(r, r.commits[i].parent, excluded)

GitRange(r, from, to) == RangeFrom(r, Resolve(r, to), Ancestors(r, Resolve(r, from)))

RangeResolves(r, from, to) ==
    r.hasGitDir /\ Resolve(r, from) > 0 /\ Resolve(r, to) > 0

\* `git rev-list --count from..to`: stdout is the count and a line end
GitRevListCount(r, from, to, fault) ==
    LET out == Run(fault, IF RangeResolves(r, from, to) THEN "ok" ELSE "exit")
    IN  [stdout |-> IF out = "ok"
                    THEN ToString(Len(GitRange(r, from, to))) \o "\n" ELSE "",
         call |-> Call("rev-list", fault, out)]

RECURSIVE SubjectLines(_, _)
SubjectLines(r, range) ==
    IF range = <<>> THEN ""
    ELSE r.commits[range[1]].msg \o "\n" \o SubjectLines(r, Tail(range))

\* `git log --oneline --format=%s from..to`: one subject line per commit
GitLog(r, from, to, fault) ==
    LET out == Run(fault, IF RangeResolves(r, from, to) THEN "ok" ELSE "exit")
    IN  [stdout |-> IF out = "ok" THEN SubjectLines(r, GitRange(r, from, to)) ELSE "",
         call |-> Call("log", fault, out)]

(***************************************************************************)
(* Results of the operations.                                              *)
(***************************************************************************)
\* Option<String>
None == [some |-> FALSE, text |-> ""]
Some(text) == [some |-> TRUE, text |-> text]

NoInfo ==
    [commits_to_lose |-> 0, has_other_engine_commits |-> FALSE,
     has_user_commits |-> FALSE, commits_summary |-> <<>>,
     safe_to_proceed |-> FALSE, warning |-> None]

Ok(r, calls) ==
    [repo |-> r, res |-> "Ok", err |-> "", value |-> "", flag |-> FALSE,
     info |-> NoInfo, calls |-> calls]
Err(r, msg, calls) ==
    [repo |-> r, res |-> "Err", err |-> msg, value |-> "", flag |-> FALSE,
     info |-> NoInfo, calls |-> calls]

is_git_repo(r) == r.hasGitDir

git_current_commit(r, fault) ==
    LET g == GitRevParseHead(r, fault)
        out == g.call.out
    IN  CASE out = "spawn" -> Err(r, "Failed to get current commit", <<g.call>>)
          [] out = "exit"  -> Err(r, "Git rev-parse failed", <<g.call>>)
          [] out = "utf8"  -> Err(r, "Invalid UTF-8 in commit hash", <<g.call>>)
          [] OTHER         -> [Ok(r, <<g.call>>) EXCEPT !.value = Trim(g.stdout)]

\* line 27: the store is initialized only where there is no store directory
NeedsInitAlways(has_git_dir) == TRUE
NeedsInit(has_git_dir) == ~has_git_dir

\* lines 74-82: only a staging process that cannot be spawned aborts
AddAbortsOnExitToo(out) == out # "ok"
AddAborts(out) == out = "spawn"

\* lines 14-24: the readiness check
HasCommitsNever(has_git_dir, cur) == FALSE
HasCommits(has_git_dir, cur) == has_git_dir /\ cur.res = "Ok"

\* f: the gateway's answer to each command the call may run
ensure_git_repo(r, f) ==
    LET has_git_dir == is_git_repo(r)
        cur == IF has_git_dir THEN git_current_commit(r, f["rev-parse"]) ELSE Err(r, "", <<>>)
        has_commits == HasCommits(has_git_dir, cur)
        init == IF NeedsInit(has_git_dir) THEN GitInit(r, f["init"])
                ELSE [repo |-> r, call |-> Call("none", "ok", "ok")]
        c1 == cur.calls \o (IF NeedsInit(has_git_dir) THEN <<init.call>> ELSE <<>>)
        name == GitConfig(init.repo, "user.name", f["config user.name"])
        email == GitConfig(name.repo, "user.email", f["config user.email"])
        add == GitAddAll(email.repo, f["add"])
        c2 == c1 \o <<name.call, email.call, add.call>>
        commit == GitCommit(add.repo, BootstrapMessage, TRUE, f["commit"])
        c3 == c2 \o <<commit.call>>
    IN  IF has_commits THEN Ok(r, cur.calls)
        ELSE IF init.call.out = "spawn" THEN Err(init.repo, "Failed to init git", c1)
        ELSE IF init.call.out = "exit" THEN Err(init.repo, "Git init failed", c1)
        ELSE IF AddAborts(add.call.out) THEN Err(add.repo, "Failed to add files", c2)
        ELSE IF commit.call.out # "ok"
             THEN Err(commit.repo, "Failed to create initial commit", c3)
        ELSE Ok(commit.repo, c3)

\* line 163: an empty status means there is nothing to commit
NoChangesNever(status_str) == FALSE
NoChanges(status_str) == Trim(status_str) = ""

\* f: the gateway's answer to each command the call may run
git_commit_changes(r, message, f) ==
    LET status == GitStatus(r, f["status"])
        c1 == <<status.call>>
        add == GitAddAll(r, f["add"])
        c2 == c1 \o <<add.call>>
        commit == GitCommit(add.repo, message, FALSE, f["commit"])
        c3 == c2 \o <<commit.call>>
    IN  IF status.call.out = "spawn" THEN Err(r, "Failed to check git status", c1)
        ELSE IF status.call.out = "exit" THEN Err(r, "Git status failed", c1)
        ELSE IF NoChanges(status.stdout) THEN Ok(r, c1)
        ELSE IF add.call.out = "spawn" THEN Err(add.repo, "Failed to git add", c2)
        ELSE IF add.call.out = "exit" THEN Err(add.repo, "Git add failed", c2)
        ELSE IF commit.call.out = "spawn" THEN Err(commit.repo, "Failed to git commit", c3)
        ELSE IF commit.call.out = "exit" THEN Err(commit.repo, "Git commit failed", c3)
        ELSE [Ok(commit.repo, c3) EXCEPT !.flag = TRUE]

\* lines 264-273: only a stash process that cannot be spawned is an error
StashAbortsOnExitToo(out) == out # "ok"
StashAborts(out) == out = "spawn"

\* f: the gateway's answer to each command the call may run
git_stash_save(r, message, f) ==
    LET status == GitStatus(r, f["status"])
        c1 == <<status.call>>
        stash == GitStashSave(r, message, f["stash"])
        c2 == c1 \o <<stash.call>>
    IN  IF status.call.out = "spawn" THEN Err(r, "Failed to check status", c1)
        ELSE IF status.stdout = "" THEN Ok(r, c1)
        ELSE IF StashAborts(stash.call.out) THEN Err(stash.repo, "Failed to stash", c2)
        ELSE Ok(stash.repo, c2)

git_commit_count_between(r, from_commit, to_commit, fault) ==
    LET g == GitRevListCount(r, from_commit, to_commit, fault)
        out == g.call.out
        count == ParseUsize(Trim(g.stdout))
    IN  IF out = "spawn" THEN Err(r, "Failed to count commits", <<g.call>>)
        ELSE IF out = "exit" THEN Err(r, "Git rev-list failed", <<g.call>>)
        ELSE IF count < 0 THEN Err(r, "Failed to parse commit count", <<g.call>>)
        ELSE [Ok(r, <<g.call>>) EXCEPT !.value = count]

git_log_between(r, from_commit, to_commit, fault) ==
    LET g == GitLog(r, from_commit, to_commit, fault)
        out == g.call.out
    IN  IF out = "spawn" THEN Err(r, "Failed to get git log", <<g.call>>)
        ELSE IF out = "exit" THEN Err(r, "Git log failed", <<g.call>>)
        ELSE [Ok(r, <<g.call>>) EXCEPT !.value = SelectNonBlank(Lines(g.stdout))]

\* line 454: the depth up to which a rollback of own commits is safe
SafeDepth == 5
\* line 498: the number of subjects kept for display
SummaryLimit == 10

\* lines 427-430
is_claude(msg) == Contains(msg, "[Claude") \/ Contains(msg, "[Claude Code]")
is_codex(msg) == Contains(msg, "[Codex]")
is_gemini(msg) == Contains(msg, "[Gemini]")
is_workbench(msg) == Contains(msg, "[Claude Workbench]")

\* lines 432-437
IsCurrentEngineAnyMarker(current_engine, msg) ==
    is_claude(msg) \/ is_workbench(msg) \/ is_codex(msg) \/ is_gemini(msg)
is_current_engine(current_engine, msg) ==
    CASE current_engine = "claude" -> is_claude(msg) \/ is_workbench(msg)
      [] current_engine = "codex"  -> is_codex(msg)
      [] current_engine = "gemini" -> is_gemini(msg)
      [] OTHER                     -> FALSE

\* line 439
is_any_engine(msg) ==
    is_claude(msg) \/ is_codex(msg) \/ is_gemini(msg) \/ is_workbench(msg)

\* line 441
IsOtherEngineCommitOfKnownEngine(current_engine, msg) ==
    /\ is_any_engine(msg) /\ ~is_current_engine(current_engine, msg)
    /\ current_engine \in {"claude", "codex", "gemini"}
IsOtherEngineCommit(current_engine, msg) ==
    is_any_engine(msg) /\ ~is_current_engine(current_engine, msg)

\* line 447
IsUserCommit(msg) ==
    ~is_any_engine(msg) /\ ~Contains(ToLowercase(msg), "merge")

\* lines 418-451: the loop over the subjects, from its k-th iteration on
RECURSIVE Analyze(_, _, _, _)
Analyze(current_engine, summary, k, acc) ==
    IF k > Len(summary) THEN acc
    ELSE LET msg == summary[k]
             other == IsOtherEngineCommit(current_engine, msg)
             user == IsUserCommit(msg)
         IN  Analyze(current_engine, summary, k + 1,
                [has_other_engine_commits |-> acc.has_other_engine_commits \/ other,
                 has_user_commits |-> acc.has_user_commits \/ user,
                 other_engine_count |-> acc.other_engine_count + (IF other THEN 1 ELSE 0),
                 user_commit_count |-> acc.user_commit_count + (IF user THEN 1 ELSE 0)])

\* line 454
SafeToProceedAnyDepth(a, commits_to_lose) ==
    ~a.has_other_engine_commits /\ ~a.has_user_commits
SafeToProceed(a, commits_to_lose) ==
    ~a.has_other_engine_commits /\ ~a.has_user_commits /\ commits_to_lose <= SafeDepth

\* lines 461-478: the three parts of the warning, each with its count (the
\* format strings in ASCII), and line 481: what joins them
OtherEngineWarning(n) == "other-engine commits lost: " \o ToString(n)
UserCommitWarning(n) == "user commits lost: " \o ToString(n)
LargeRollbackWarning(n) == "commits lost: " \o ToString(n)
WarningSeparator == "; "

\* lines 457-484
WarningDepthPartAlways(a, commits_to_lose, safe_to_proceed) ==
    IF ~safe_to_proceed
    THEN Some(Join(
            (IF a.has_other_engine_commits
             THEN <<OtherEngineWarning(a.other_engine_count)>> ELSE <<>>)
         \o (IF a.has_user_commits
             THEN <<UserCommitWarning(a.user_commit_count)>> ELSE <<>>)
         \o (IF commits_to_lose > SafeDepth
             THEN <<LargeRollbackWarning(commits_to_lose)>> ELSE <<>>),
            WarningSeparator))
    ELSE None
Warning(a, commits_to_lose, safe_to_proceed) ==
    IF ~safe_to_proceed
    THEN Some(Join(
            (IF a.has_other_engine_commits
             THEN <<OtherEngineWarning(a.other_engine_count)>> ELSE <<>>)
         \o (IF a.has_user_commits
             THEN <<UserCommitWarning(a.user_commit_count)>> ELSE <<>>)
         \o (IF commits_to_lose > SafeDepth /\ ~a.has_other_engine_commits
                  /\ ~a.has_user_commits
             THEN <<LargeRollbackWarning(commits_to_lose)>> ELSE <<>>),
            WarningSeparator))
    ELSE None

\* line 423: the loop classifies every fetched subject; the cap of line 498
\* is applied to the stored summary only
ClassifiedAfterCap(commits_summary) == Take(commits_summary, SummaryLimit)
Classified(commits_summary) == commits_summary

\* line 400: a target that is the current head needs no range query
IsHeadNever(current_head, target_commit) == FALSE
IsHead(current_head, target_commit) == current_head = target_commit

\* f: the gateway's answer to each command the call may run
check_reset_safety(r, target_commit, current_engine, f) ==
    LET cur == git_current_commit(r, f["rev-parse"])
        current_head == cur.value
        count == git_commit_count_between(r, target_commit, current_head, f["rev-list"])
        commits_to_lose == count.value
        c1 == cur.calls \o count.calls
        log == git_log_between(r, target_commit, current_head, f["log"])
        commits_summary == log.value
        c2 == c1 \o log.calls
        a == Analyze(current_engine, Classified(commits_summary), 1,
                     [has_other_engine_commits |-> FALSE, has_user_commits |-> FALSE,
                      other_engine_count |-> 0, user_commit_count |-> 0])
        safe_to_proceed == SafeToProceed(a, commits_to_lose)
    IN  IF cur.res = "Err" THEN cur
        ELSE IF IsHead(current_head, target_commit)
             THEN [Ok(r, cur.calls) EXCEPT !.info =
                      [commits_to_lose |-> 0, has_other_engine_commits |-> FALSE,
                       has_user_commits |-> FALSE, commits_summary |-> <<>>,
                       safe_to_proceed |-> TRUE, warning |-> None]]
        ELSE IF count.res = "Err" THEN Err(r, count.err, c1)
        ELSE IF log.res = "Err" THEN Err(r, log.err, c2)
        ELSE [Ok(r, c2) EXCEPT !.info =
                 [commits_to_lose |-> commits_to_lose,
                  has_other_engine_commits |-> a.has_other_engine_commits,
                  has_user_commits |-> a.has_user_commits,
                  commits_summary |-> Take(commits_summary, SummaryLimit),
                  safe_to_proceed |-> safe_to_proceed,
                  warning |-> Warning(a, commits_to_lose, safe_to_proceed)]]

(***************************************************************************)
(* The registry file (registry.rs).  The JSON document is a sequence of    *)
(* tokens: the opening of the "servers" object, one token per entry (key   *)
(* and value) and the closing; a write that fails part-way leaves a prefix *)
(* of the document.                                                        *)
(***************************************************************************)
ServerIds == {"fs", "web"}
ServerNames == {"Files", "Search"}
ServerSpecs == {"npx", "uvx"}

\* RegistryEntry
RegistryEntry(id, name, server, enabled) ==
    [id |-> id, name |-> name, server |-> server, enabled |-> enabled]

NoEntry == RegistryEntry("", "", "", FALSE)

\* McpRegistry::default(): no servers
EmptyRegistry == [id \in {} |-> NoEntry]

OpenToken == [tok |-> "open", key |-> "", entry |-> NoEntry]
CloseToken == [tok |-> "close", key |-> "", entry |-> NoEntry]
EntryToken(key, entry) == [tok |-> "entry", key |-> key, entry |-> entry]

\* the orders in which a HashMap may iterate over the keys
Orders(keys) ==
    { o \in [1..Cardinality(keys) -> keys] :
        \A i, j \in 1..Cardinality(keys) : i # j => o[i] # o[j] }

\* serde_json::to_string_pretty: the document of a registry, its entries in
\* the order the map iterates
ToStringPretty(registry, order) ==
    <<OpenToken>>
        \o [k \in 1..Len(order) |-> EntryToken(order[k], registry[order[k]])]
        \o <<CloseToken>>

Documents(registry) ==
    { ToStringPretty(registry, o) : o \in Orders(DOMAIN registry) }

\* a complete document: opened, entries only, closed
WellFormed(content) ==
    /\ Len(content) >= 2
    /\ content[1] = OpenToken
    /\ content[Len(content)] = CloseToken
    /\ \A k \in 2..(Len(content) - 1) : content[k].tok = "entry"

\* serde_json::from_str: the map of a complete document; of two entries
\* with one key the later one stays
FromStr(content) ==
    LET keys == { content[k].key : k \in 2..(Len(content) - 1) }
        lastOf(id) == CHOOSE k \in 2..(Len(content) - 1) :
                        /\ content[k].key = id
                        /\ \A j \in (k + 1)..(Len(content) - 1) : content[j].key # id
    IN  [id \in keys |-> content[lastOf(id)].entry]

AbsentFile == [exists |-> FALSE, content |-> <<>>]

\* results of the registry operations
RegOk(f, registry) ==
    [file |-> f, res |-> "Ok", err |-> "", registry |-> registry]
RegErr(f, msg) ==
    [file |-> f, res |-> "Err", err |-> msg, registry |-> EmptyRegistry]

\* io: whether fs::read_to_string succeeds ("ok") or fails ("io")
read_registry(f, io) ==
    IF ~f.exists THEN RegOk(f, EmptyRegistry)
    ELSE IF io # "ok" THEN RegErr(f, "read registry failed")
    ELSE IF f.content = <<>> THEN RegOk(f, EmptyRegistry)
    ELSE IF ~WellFormed(f.content) THEN RegErr(f, "parse registry failed")
    ELSE RegOk(f, FromStr(f.content))

\* what fs::create_dir_all and fs::write can do with the document of a
\* registry: write it whole, fail before the file is touched, or fail (or be
\* cut short) after the file was truncated and a part was written
WriteOutcomes(registry) ==
    { [kind |-> "ok", content |-> d] : d \in Documents(registry) }
        \cup { [kind |-> k, content |-> <<>>] : k \in {"mkdir", "open"} }
        \cup UNION { { [kind |-> "partial", content |-> SubSeq(d, 1, n)] :
                            n \in 0..(Len(d) - 1) } : d \in Documents(registry) }

NoWrite == [kind |-> "none", content |-> <<>>]

\* w: the outcome of the write, one of WriteOutcomes(registry)
write_registry(f, registry, w) ==
    CASE w.kind = "mkdir"   -> RegErr(f, "create registry dir failed")
      [] w.kind = "open"    -> RegErr(f, "write registry failed")
      [] w.kind = "partial" ->
            RegErr([exists |-> TRUE, content |-> w.content], "write registry failed")
      [] OTHER              -> RegOk([exists |-> TRUE, content |-> w.content], registry)

\* Option<RegistryEntry>
NotFound == [some |-> FALSE, entry |-> NoEntry]
Found(entry) == [some |-> TRUE, entry |-> entry]

\* the result of an operation: the file and the engines' live sets it leaves,
\* Ok or Err, and the value it returns
RegResult(f, live, res, err, found, servers) ==
    [file |-> f, live |-> live, res |-> res, err |-> err, found |-> found,
     servers |-> servers]
Done(f, live) == RegResult(f, live, "Ok", "", NotFound, <<>>)
Fail(f, live, msg) == RegResult(f, live, "Err", msg, NotFound, <<>>)

\* HashMap::insert
InsertAlone(registry, id, entry) == [k \in {id} |-> entry]
Insert(registry, id, entry) ==
    [k \in DOMAIN registry \cup {id} |-> IF k = id THEN entry ELSE registry[k]]
\* HashMap::remove
Remove(registry, id) == [k \in DOMAIN registry \ {id} |-> registry[k]]

upsert_server(f, live, id, name, server, enabled, io, w) ==
    LET rd == read_registry(f, io)
        registry == Insert(rd.registry, id, RegistryEntry(id, name, server, enabled))
        wr == write_registry(f, registry, w)
    IN  IF rd.res = "Err" THEN Fail(f, live, rd.err)
        ELSE IF wr.res = "Err" THEN Fail(wr.file, live, wr.err)
        ELSE Done(wr.file, live)

\* line 156: the file is written only if an entry was removed
RemovedAlways(registry, id) == TRUE
Removed(registry, id) == id \in DOMAIN registry

remove_server(f, live, id, io, w) ==
    LET rd == read_registry(f, io)
        wr == write_registry(f, Remove(rd.registry, id), w)
    IN  IF rd.res = "Err" THEN Fail(f, live, rd.err)
        ELSE IF ~Removed(rd.registry, id) THEN Done(f, live)
        ELSE IF wr.res = "Err" THEN Fail(wr.file, live, wr.err)
        ELSE Done(wr.file, live)

set_server_enabled(f, live, id, enabled, io, w) ==
    LET rd == read_registry(f, io)
        registry == IF id \in DOMAIN rd.registry
                    THEN [rd.registry EXCEPT ![id].enabled = enabled]
                    ELSE rd.registry
        wr == write_registry(f, registry, w)
    IN  IF rd.res = "Err" THEN Fail(f, live, rd.err)
        ELSE IF id \notin DOMAIN rd.registry THEN Done(f, live)
        ELSE IF wr.res = "Err" THEN Fail(wr.file, live, wr.err)
        ELSE Done(wr.file, live)

get_server(f, live, id, io) ==
    LET rd == read_registry(f, io)
    IN  IF rd.res = "Err" THEN Fail(f, live, rd.err)
        ELSE [Done(f, live) EXCEPT !.found =
                 IF id \in DOMAIN rd.registry THEN Found(rd.registry[id]) ELSE NotFound]

(***************************************************************************)
(* The engine configuration collaborator (import_from_app,                 *)
(* sync_servers_to_app, AppType::from_str): the live server set of each    *)
(* engine, read as a whole and replaced as a whole.                        *)
(***************************************************************************)
AppTypes == {"claude", "codex", "gemini"}

\* a live set: the specifications of the servers an engine has enabled
LiveSets == UNION { [S -> ServerSpecs] : S \in SUBSET ServerIds }

NoServers == [id \in {} |-> ""]

\* AppType::from_str
AppTypeFromStr(engine) == engine \in AppTypes

\* import_from_app: the live set of the engine, or an error
import_from_app(live, app_type, imp) ==
    IF imp = "ok" THEN [res |-> "Ok", servers |-> live[app_type]]
    ELSE [res |-> "Err", servers |-> NoServers]

\* sync_servers_to_app: the engine's live set becomes the given one
sync_servers_to_app(live, servers, app_type, syn) ==
    IF syn = "ok" THEN [res |-> "Ok", live |-> [live EXCEPT ![app_type] = servers]]
    ELSE [res |-> "Err", live |-> live]

\* Result::unwrap_or_default
UnwrapOrDefault(result) == IF result.res = "Ok" THEN result.servers ELSE NoServers

\* line 117: a server is enabled iff the engine has it
IsEnabledFromRegistry(entry, enabled_servers, id) == entry.enabled
IsEnabled(entry, enabled_servers, id) == id \in DOMAIN enabled_servers

\* lines 115-131; order1 and order2: the orders in which the two maps iterate
get_engine_servers_with_status(f, live, engine, io, imp, order1, order2) ==
    LET rd == read_registry(f, io)
        registry == rd.registry
        enabled_servers ==
            IF AppTypeFromStr(engine)
            THEN UnwrapOrDefault(import_from_app(live, engine, imp)) ELSE NoServers
        fromRegistry ==
            [k \in 1..Len(order1) |->
                LET id == order1[k]
                IN  [id |-> id,
                     spec |-> IF id \in DOMAIN enabled_servers
                              THEN enabled_servers[id] ELSE registry[id].server,
                     enabled |-> IsEnabled(registry[id], enabled_servers, id)]]
        unseen == SelectSeq(order2, LAMBDA id : id \notin DOMAIN registry)
        fromEngine ==
            [k \in 1..Len(unseen) |->
                [id |-> unseen[k], spec |-> enabled_servers[unseen[k]], enabled |-> TRUE]]
    IN  IF rd.res = "Err" THEN Fail(f, live, rd.err)
        ELSE IF ~AppTypeFromStr(engine) THEN Fail(f, live, "unknown engine")
        ELSE [Done(f, live) EXCEPT !.servers = fromRegistry \o fromEngine]

\* lines 191-195: the enabled entries, id -> specification
PushedAll(registry) == [id \in DOMAIN registry |-> registry[id].server]
Pushed(registry) ==
    [id \in { k \in DOMAIN registry : registry[k].enabled } |-> registry[id].server]

sync_registry_to_engine(f, live, engine, io, syn) ==
    LET rd == read_registry(f, io)
        enabled_servers == Pushed(rd.registry)
        sync == IF AppTypeFromStr(engine)
                THEN sync_servers_to_app(live, enabled_servers, engine, syn)
                ELSE [res |-> "Err", live |-> live]
    IN  IF rd.res = "Err" THEN Fail(f, live, rd.err)
        ELSE IF ~AppTypeFromStr(engine) THEN Fail(f, live, "unknown engine")
        ELSE IF sync.res = "Err" THEN Fail(f, sync.live, "sync to engine failed")
        ELSE Done(f, sync.live)

(***************************************************************************)
(* Calls.  An operation is called on the project path with one answer of   *)
(* the gateway per command it runs; its result stays in `last` until the   *)
(* caller takes it (every operation is synchronous and blocking).          *)
(***************************************************************************)
Commands ==
    {"rev-parse", "init", "config user.name", "config user.email", "add",
     "commit", "status", "stash", "rev-list", "log"}

FaultsOf(cmd) == IF cmd = "rev-parse" THEN RevParseFaults ELSE Faults

NoFaults == [c \in Commands |-> "ok"]

NoArgs == [message |-> "", target |-> "", engine |-> ""]

Apply(op, args, r, f) ==
    CASE op = "ensure_git_repo"    -> ensure_git_repo(r, f)
      [] op = "git_commit_changes" -> git_commit_changes(r, args.message, f)
      [] op = "git_stash_save"     -> git_stash_save(r, args.message, f)
      [] op = "check_reset_safety" ->
            check_reset_safety(r, args.target, args.engine, f)

\* every way the gateway can answer the commands a call runs: the k-th
\* command's answer decides which command, if any, is the (k+1)-th
RECURSIVE Answers(_, _, _, _, _)
Answers(op, args, r, f, k) ==
    LET calls == Apply(op, args, r, f).calls
    IN  IF Len(calls) <= k THEN {f}
        ELSE UNION { Answers(op, args, r, [f EXCEPT ![calls[k + 1].cmd] = v], k + 1) :
                        v \in FaultsOf(calls[k + 1].cmd) }

Record(op, args, pre, f, result) ==
    [op |-> op, args |-> args, pre |-> pre, res |-> result.res, err |-> result.err,
     value |-> result.value, flag |-> result.flag, info |-> result.info,
     calls |-> result.calls]

Idle(r) == Record("none", NoArgs, r, NoFaults, Ok(r, <<>>))

\* no engine has a server enabled
NoLive == [a \in AppTypes |-> NoServers]

\* the registry is not there and no caller runs concurrently with the call
\* in `last`
GitOnly == file = AbsentFile /\ engineServers = NoLive /\ procs = <<>>

Invoke(op, args) ==
    /\ last.op = "none"
    /\ \E f \in Answers(op, args, repo, NoFaults, 0) :
          LET result == Apply(op, args, repo, f)
          IN  /\ Len(result.repo.commits) > Len(repo.commits)
                    => Len(result.repo.commits) <= MaxCommits
              /\ Len(result.repo.stash) > Len(repo.stash)
                    => Len(result.repo.stash) <= MaxStash
              /\ repo' = result.repo
              /\ last' = Record(op, args, repo, f, result)
              /\ UNCHANGED <<file, engineServers, procs>>

\* the caller takes the result of the call
Return ==
    /\ last.op # "none"
    /\ last' = Idle(repo)
    /\ UNCHANGED <<repo, file, engineServers, procs>>

(***************************************************************************)
(* The bootstrap specification: a project path with no commits, the        *)
(* operations called on it, and the user editing the working tree between  *)
(* calls.                                                                  *)
(***************************************************************************)
\* a path with no commits: Absent, or a store directory somebody created
FreshRepos ==
    { [hasGitDir |-> d, workTree |-> w, index |-> {}, commits |-> <<>>, head |-> 0,
       stash |-> <<>>] :
        d \in BOOLEAN, w \in SUBSET Files }

InitGit ==
    /\ repo \in FreshRepos
    /\ last = Idle(repo)
    /\ GitOnly

CommitMessages == {"[Claude Code] checkpoint"}

EnsureGitRepo == Invoke("ensure_git_repo", NoArgs)

GitCommitChanges ==
    \E m \in CommitMessages :
        Invoke("git_commit_changes", [NoArgs EXCEPT !.message = m])

\* the user (or an engine) changes the files of the working tree
EditWorkTree ==
    /\ last.op = "none"
    /\ \E w \in SUBSET Files :
          /\ w # repo.workTree
          /\ repo' = [repo EXCEPT !.workTree = w]
          /\ last' = Idle(repo')
          /\ UNCHANGED <<file, engineServers, procs>>

NextGit == EnsureGitRepo \/ GitCommitChanges \/ EditWorkTree \/ Return

SpecGit == InitGit /\ [][NextGit]_vars

(***************************************************************************)
(* The stash specification: git_stash_save called on a path with no        *)
(* commits or on a repository with its bootstrap commit, the user editing  *)
(* the working tree between calls.                                         *)
(***************************************************************************)
BootstrappedRepos ==
    { [hasGitDir |-> TRUE, workTree |-> w, index |-> t,
       commits |-> <<[msg |-> BootstrapMessage, tree |-> t, parent |-> 0]>>,
       head |-> 1, stash |-> <<>>] :
        w \in SUBSET Files, t \in SUBSET Files }

InitStash ==
    /\ repo \in FreshRepos \cup BootstrappedRepos
    /\ last = Idle(repo)
    /\ GitOnly

StashMessages == {"auto-stash before revert"}

GitStashSaveCall ==
    \E m \in StashMessages :
        Invoke("git_stash_save", [NoArgs EXCEPT !.message = m])

NextStash == GitStashSaveCall \/ EditWorkTree \/ Return

SpecStash == InitStash /\ [][NextStash]_vars

(***************************************************************************)
(* The reset-safety specification: check_reset_safety is a function of the *)
(* store's history, the target, the requesting engine and the gateway's    *)
(* answers.  The history is drawn: no commit at all, or a run of commits   *)
(* with one subject, the newest of them possibly with another subject; the *)
(* choice of the target makes the ranges of every length.                  *)
(***************************************************************************)
Subjects ==
    {"[Claude Code] edit", "[Claude Workbench] save", "[Codex] edit",
     "[Gemini] edit", "fix typo", "Merge branch dev", ""}

Engines == {"claude", "codex", "gemini", "cursor"}

History(n, filler, newest) ==
    [i \in 1..n |-> [msg |-> IF i = n THEN newest ELSE filler, tree |-> {},
                     parent |-> i - 1]]

\* head is the last commit, or the one before it after a reset
InitSafety ==
    /\ \E n \in {0, MaxHistory}, filler \in Subjects, newest \in Subjects :
       \E h \in {n - 1, n} \cap 0..n :
          repo = [hasGitDir |-> TRUE, workTree |-> {}, index |-> {},
                  commits |-> History(n, filler, newest), head |-> h,
                  stash |-> <<>>]
    /\ last = Idle(repo)
    /\ GitOnly

\* the ids a caller may pass: those of the store's commits, and one of no commit
Targets(r) == { CommitId(i) : i \in 1..Len(r.commits) } \cup {"deadbeef"}

CheckResetSafety ==
    \E t \in Targets(repo), e \in Engines :
        Invoke("check_reset_safety", [NoArgs EXCEPT !.target = t, !.engine = e])

NextSafety == CheckResetSafety \/ Return

SpecSafety == InitSafety /\ [][NextSafety]_vars

(***************************************************************************)
(* The summary specification: check_reset_safety on histories longer than  *)
(* the summary it stores.  The second commit of the history, the oldest    *)
(* one a range can hold, may have a subject of its own.                    *)
(***************************************************************************)
LongHistory(n, filler, oldest) ==
    [i \in 1..n |-> [msg |-> IF i = 2 THEN oldest ELSE filler, tree |-> {},
                     parent |-> i - 1]]

InitSummary ==
    /\ \E filler \in Subjects, oldest \in Subjects :
       \E h \in {MaxLongHistory - 1, MaxLongHistory} :
          repo = [hasGitDir |-> TRUE, workTree |-> {}, index |-> {},
                  commits |-> LongHistory(MaxLongHistory, filler, oldest), head |-> h,
                  stash |-> <<>>]
    /\ last = Idle(repo)
    /\ GitOnly

NextSummary == CheckResetSafety \/ Return

SpecSummary == InitSummary /\ [][NextSummary]_vars

(***************************************************************************)
(* The registry specification: the registry operations called one after    *)
(* the other on a registry file that starts absent or empty, every call    *)
(* with each outcome the file system and the engine collaborator can give  *)
(* it, and the engine's own configuration changing between calls.          *)
(***************************************************************************)
\* a project path without a store, for the callers of the registry
NoRepo ==
    [hasGitDir |-> FALSE, workTree |-> {}, index |-> {}, commits |-> <<>>,
     head |-> 0, stash |-> <<>>]

EmptyFile == [exists |-> TRUE, content |-> <<>>]

\* the engine names the callers pass: a known one and an unknown one
RegistryEngines == {"claude", "cursor"}

RegArgs(id, name, server, enabled, engine) ==
    [id |-> id, name |-> name, server |-> server, enabled |-> enabled,
     engine |-> engine]

\* the outcomes of reading file f: no read is made of a file that is not there
ReadOutcomes(f) == IF f.exists THEN {"ok", "io"} ELSE {"ok"}

\* the call, what file system and collaborator answered, and its result
RegRecord(op, args, io, w, imp, syn, result) ==
    [op |-> op, args |-> args, preFile |-> file, preLive |-> engineServers,
     io |-> io, w |-> w, imp |-> imp, syn |-> syn,
     res |-> result.res, err |-> result.err, found |-> result.found,
     servers |-> result.servers]

RegCall(op, args, io, w, imp, syn, result) ==
    /\ file' = result.file
    /\ engineServers' = result.live
    /\ last' = RegRecord(op, args, io, w, imp, syn, result)
    /\ UNCHANGED <<repo, procs>>

InitRegistry ==
    /\ file \in {AbsentFile, EmptyFile}
    /\ engineServers = NoLive
    /\ repo = NoRepo
    /\ last = Idle(repo)
    /\ procs = <<>>

UpsertServer ==
    /\ last.op = "none"
    /\ \E id \in ServerIds, name \in ServerNames, server \in ServerSpecs,
          enabled \in BOOLEAN, io \in ReadOutcomes(file) :
          LET rd == read_registry(file, io)
              registry == Insert(rd.registry, id,
                                 RegistryEntry(id, name, server, enabled))
          IN  \E w \in IF rd.res = "Ok" THEN WriteOutcomes(registry) ELSE {NoWrite} :
                 RegCall("upsert_server", RegArgs(id, name, server, enabled, ""),
                         io, w, "none", "none",
                         upsert_server(file, engineServers, id, name, server,
                                       enabled, io, w))

RemoveServer ==
    /\ last.op = "none"
    /\ \E id \in ServerIds, io \in ReadOutcomes(file) :
          LET rd == read_registry(file, io)
          IN  \E w \in IF rd.res = "Ok" /\ Removed(rd.registry, id)
                        THEN WriteOutcomes(Remove(rd.registry, id)) ELSE {NoWrite} :
                 RegCall("remove_server", RegArgs(id, "", "", FALSE, ""),
                         io, w, "none", "none",
                         remove_server(file, engineServers, id, io, w))

SetServerEnabled ==
    /\ last.op = "none"
    /\ \E id \in ServerIds, enabled \in BOOLEAN, io \in ReadOutcomes(file) :
          LET rd == read_registry(file, io)
          IN  \E w \in IF rd.res = "Ok" /\ id \in DOMAIN rd.registry
                        THEN WriteOutcomes([rd.registry EXCEPT ![id].enabled = enabled])
                        ELSE {NoWrite} :
                 RegCall("set_server_enabled", RegArgs(id, "", "", enabled, ""),
                         io, w, "none", "none",
                         set_server_enabled(file, engineServers, id, enabled, io, w))

GetServer ==
    /\ last.op = "none"
    /\ \E id \in ServerIds, io \in ReadOutcomes(file) :
          RegCall("get_server", RegArgs(id, "", "", FALSE, ""),
                  io, NoWrite, "none", "none",
                  get_server(file, engineServers, id, io))

GetEngineServersWithStatus ==
    /\ last.op = "none"
    /\ \E e \in RegistryEngines, io \in ReadOutcomes(file) :
          LET rd == read_registry(file, io)
              imports == rd.res = "Ok" /\ AppTypeFromStr(e)
          IN  \E imp \in IF imports THEN {"ok", "fail"} ELSE {"none"} :
                 LET enabled_servers ==
                        IF imports
                        THEN UnwrapOrDefault(import_from_app(engineServers, e, imp))
                        ELSE NoServers
                 IN  \E order1 \in Orders(DOMAIN rd.registry),
                        order2 \in Orders(DOMAIN enabled_servers) :
                        RegCall("get_engine_servers_with_status",
                                RegArgs("", "", "", FALSE, e),
                                io, NoWrite, imp, "none",
                                get_engine_servers_with_status(file, engineServers,
                                    e, io, imp, order1, order2))

SyncRegistryToEngine ==
    /\ last.op = "none"
    /\ \E e \in RegistryEngines, io \in ReadOutcomes(file) :
          LET rd == read_registry(file, io)
          IN  \E syn \in IF rd.res = "Ok" /\ AppTypeFromStr(e)
                          THEN {"ok", "fail"} ELSE {"none"} :
                 RegCall("sync_registry_to_engine", RegArgs("", "", "", FALSE, e),
                         io, NoWrite, "none", syn,
                         sync_registry_to_engine(file, engineServers, e, io, syn))

\* the engine's own configuration is edited outside the registry
EngineEdit ==
    /\ last.op = "none"
    /\ \E servers \in LiveSets :
          /\ servers # engineServers["claude"]
          /\ engineServers' = [engineServers EXCEPT !["claude"] = servers]
    /\ last' = Idle(repo)
    /\ UNCHANGED <<repo, file, procs>>

NextRegistry ==
    \/ UpsertServer \/ RemoveServer \/ SetServerEnabled \/ GetServer
    \/ GetEngineServersWithStatus \/ SyncRegistryToEngine \/ EngineEdit
    \/ Return

SpecRegistry == InitRegistry /\ [][NextRegistry]_vars

(***************************************************************************)
(* The registry race: two callers run upsert_server, each on its own id.   *)
(* No lock is taken and nothing is cached, so the steps of the two calls   *)
(* interleave: the read of the file, the creation (truncation) of the file *)
(* by fs::write, and the writing of the document into it.                  *)
(***************************************************************************)
\* the two concurrent callers
Callers == {1, 2}

\* the id each caller upserts
Target(c) == IF c = 1 THEN "fs" ELSE "web"

\* a caller of upsert_server: where it stands, the entry it inserts, its
\* in-memory copy of the registry, its result, and whether its call
\* overlapped the other one
Writer(pc, entry, registry, res, overlapped) ==
    [pc |-> pc, entry |-> entry, registry |-> registry, res |-> res,
     overlapped |-> overlapped]

InitUpsertRace ==
    \* no file, an empty one, or the registry earlier calls left
    /\ file \in {AbsentFile, EmptyFile}
                \cup { [exists |-> TRUE, content |-> d] :
                         d \in Documents([id \in ServerIds |->
                                 RegistryEntry(id, "Files", "npx", TRUE)]) }
    /\ engineServers = NoLive
    /\ repo = NoRepo
    /\ last = Idle(repo)
    /\ procs = [c \in Callers |->
                   Writer("read_registry", NoEntry, EmptyRegistry, "none", FALSE)]

\* lines 138-145: read the whole file, insert into the copy
UpsertRead(c) ==
    /\ procs[c].pc = "read_registry"
    /\ \E name \in ServerNames, server \in ServerSpecs, enabled \in BOOLEAN,
          io \in ReadOutcomes(file) :
          LET rd == read_registry(file, io)
              entry == RegistryEntry(Target(c), name, server, enabled)
              \* the other call has begun and has not returned
              ov == \E d \in Callers \ {c} :
                        procs[d].pc \notin {"read_registry", "done"}
          IN  procs' = [d \in Callers |->
                          IF d = c
                          THEN IF rd.res = "Err"
                               THEN Writer("done", entry, EmptyRegistry, "Err", ov)
                               ELSE Writer("fs::write", entry,
                                           Insert(rd.registry, Target(c), entry),
                                           "none", ov)
                          ELSE [procs[d] EXCEPT !.overlapped = @ \/ ov]]
    /\ UNCHANGED file

\* lines 88-94: create the directory, open the file for writing; opening
\* truncates it
UpsertCreate(c) ==
    /\ procs[c].pc = "fs::write"
    /\ \E kind \in {"ok", "mkdir", "open"} :
          IF kind = "ok"
          THEN /\ file' = EmptyFile
               /\ procs' = [procs EXCEPT ![c].pc = "write_all"]
          ELSE /\ procs' = [procs EXCEPT ![c].pc = "done", ![c].res = "Err"]
               /\ UNCHANGED file

\* lines 94-99: write the document from the start of the file, whole (Ok) or
\* cut short (Err); what the file held beyond the written part stays
UpsertWriteAll(c) ==
    /\ procs[c].pc = "write_all"
    /\ \E w \in { o \in WriteOutcomes(procs[c].registry) :
                    o.kind \in {"ok", "partial"} } :
          /\ file' = [exists |-> TRUE,
                      content |-> w.content \o SubSeq(file.content, Len(w.content) + 1,
                                                      Len(file.content))]
          /\ procs' = [procs EXCEPT ![c].pc = "done",
                                    ![c].res = IF w.kind = "ok" THEN "Ok" ELSE "Err"]

NextUpsertRace ==
    \E c \in Callers :
        /\ UpsertRead(c) \/ UpsertCreate(c) \/ UpsertWriteAll(c)
        /\ UNCHANGED <<repo, last, engineServers>>

SpecUpsertRace == InitUpsertRace /\ [][NextUpsertRace]_vars

(***************************************************************************)
(* The bootstrap race: two callers run ensure_git_repo on one path with no *)
(* commits.  Nothing serializes them (no lock is taken), so the commands   *)
(* of the two calls interleave; every git command is one step.             *)
(***************************************************************************)
InitEnsureRace ==
    /\ repo \in FreshRepos
    /\ last = Idle(repo)
    /\ file = AbsentFile
    /\ engineServers = NoLive
    \* a caller of ensure_git_repo: where it stands, what it read at line 16,
    \* its result, and how many times its `git init` succeeded
    /\ procs = [c \in Callers |->
                   [pc |-> "is_git_repo", has_git_dir |-> FALSE, res |-> "none",
                    inits |-> 0]]

\* c goes on to pc (to the end with result res when pc is "done")
Goto(c, pc, res) == procs' = [procs EXCEPT ![c].pc = pc, ![c].res = res]

\* line 16
EnsureCheckDir(c) ==
    /\ procs[c].pc = "is_git_repo"
    /\ procs' = [procs EXCEPT ![c].has_git_dir = is_git_repo(repo),
                              ![c].pc = IF is_git_repo(repo) THEN "rev-parse"
                                        ELSE "init"]
    /\ UNCHANGED repo

\* lines 19-24
EnsureRevParse(c) ==
    /\ procs[c].pc = "rev-parse"
    /\ \E fault \in RevParseFaults :
          LET cur == git_current_commit(repo, fault)
          IN  IF HasCommits(procs[c].has_git_dir, cur)
              THEN Goto(c, "done", "Ok")
              ELSE Goto(c, IF NeedsInit(procs[c].has_git_dir) THEN "init"
                           ELSE "config user.name", "none")
    /\ UNCHANGED repo

\* lines 27-49
EnsureInit(c) ==
    /\ procs[c].pc = "init"
    /\ \E fault \in Faults :
          LET g == GitInit(repo, fault)
          IN  /\ repo' = g.repo
              /\ IF g.call.out = "ok"
                  THEN procs' = [procs EXCEPT ![c].pc = "config user.name",
                                             ![c].inits = @ + 1]
                  ELSE Goto(c, "done", "Err")

\* lines 51-64
EnsureConfig(c) ==
    /\ procs[c].pc \in {"config user.name", "config user.email"}
    /\ \E fault \in Faults :
          LET key == IF procs[c].pc = "config user.name" THEN "user.name"
                     ELSE "user.email"
              g == GitConfig(repo, key, fault)
          IN  /\ repo' = g.repo
              /\ Goto(c, IF key = "user.name" THEN "config user.email" ELSE "add",
                      "none")

\* lines 66-82
EnsureAdd(c) ==
    /\ procs[c].pc = "add"
    /\ \E fault \in Faults :
          LET g == GitAddAll(repo, fault)
          IN  /\ repo' = g.repo
              /\ IF AddAborts(g.call.out) THEN Goto(c, "done", "Err")
                  ELSE Goto(c, "commit", "none")

\* lines 84-109
EnsureCommit(c) ==
    /\ procs[c].pc = "commit"
    /\ \E fault \in Faults :
          LET g == GitCommit(repo, BootstrapMessage, TRUE, fault)
          IN  /\ repo' = g.repo
              /\ Goto(c, "done", IF g.call.out = "ok" THEN "Ok" ELSE "Err")

NextEnsureRace ==
    \E c \in Callers :
        /\ \/ EnsureCheckDir(c) \/ EnsureRevParse(c) \/ EnsureInit(c)
           \/ EnsureConfig(c) \/ EnsureAdd(c) \/ EnsureCommit(c)
        /\ UNCHANGED <<last, file, engineServers>>

SpecEnsureRace == InitEnsureRace /\ [][NextEnsureRace]_vars

(***************************************************************************)
(* A session of one caller on the registry: set_server_enabled,            *)
(* sync_registry_to_engine and get_engine_servers_with_status called one   *)
(* after the other, and the engine's configuration edited from outside     *)
(* between them.  The calls made so far, with their results, are kept in   *)
(* order in `procs`.                                                       *)
(***************************************************************************)
\* a completed call of the session
Called(op, id, enabled, engine, imp, result) ==
    [op |-> op, id |-> id, enabled |-> enabled, engine |-> engine, imp |-> imp,
     res |-> result.res, servers |-> result.servers]

\* the registry a session starts from is one that earlier upsert_server
\* calls left; the engine has any configuration
InitSession ==
    /\ file \in {AbsentFile} \cup
          UNION { { [exists |-> TRUE, content |-> d] : d \in Documents(registry) } :
                  registry \in
                    { r \in UNION { [S -> { RegistryEntry(id, "Files", "npx", enabled) :
                                              id \in ServerIds, enabled \in BOOLEAN }] :
                                    S \in SUBSET ServerIds } :
                        \A id \in DOMAIN r : r[id].id = id } }
    /\ engineServers \in { [NoLive EXCEPT !["claude"] = servers] : servers \in LiveSets }
    /\ repo = NoRepo
    /\ last = Idle(repo)
    /\ procs = <<>>

NextSession ==
    /\ Len(procs) < MaxCalls
    /\ UNCHANGED <<repo, last>>
    /\ \/ \E id \in ServerIds, enabled \in BOOLEAN, io \in ReadOutcomes(file) :
             LET rd == read_registry(file, io)
             IN  \E w \in IF rd.res = "Ok" /\ id \in DOMAIN rd.registry
                           THEN WriteOutcomes([rd.registry EXCEPT ![id].enabled = enabled])
                           ELSE {NoWrite} :
                    LET result == set_server_enabled(file, engineServers, id,
                                                     enabled, io, w)
                    IN  /\ file' = result.file
                        /\ procs' = Append(procs, Called("set_server_enabled", id,
                                                enabled, "", "none", result))
                        /\ UNCHANGED engineServers
       \/ \E e \in RegistryEngines, io \in ReadOutcomes(file) :
             LET rd == read_registry(file, io)
             IN  \E syn \in IF rd.res = "Ok" /\ AppTypeFromStr(e)
                             THEN {"ok", "fail"} ELSE {"none"} :
                    LET result == sync_registry_to_engine(file, engineServers, e,
                                                          io, syn)
                    IN  /\ engineServers' = result.live
                        /\ procs' = Append(procs, Called("sync_registry_to_engine",
                                                "", FALSE, e, "none", result))
                        /\ UNCHANGED file
       \/ \E e \in RegistryEngines, io \in ReadOutcomes(file) :
             LET rd == read_registry(file, io)
                 imports == rd.res = "Ok" /\ AppTypeFromStr(e)
             IN  \E imp \in IF imports THEN {"ok", "fail"} ELSE {"none"} :
                    LET enabled_servers ==
                           IF imports
                           THEN UnwrapOrDefault(import_from_app(engineServers, e, imp))
                           ELSE NoServers
                    IN  \E order1 \in Orders(DOMAIN rd.registry),
                           order2 \in Orders(DOMAIN enabled_servers) :
                           /\ procs' = Append(procs,
                                  Called("get_engine_servers_with_status", "", FALSE,
                                         e, imp,
                                         get_engine_servers_with_status(file,
                                             engineServers, e, io, imp, order1, order2)))
                           /\ UNCHANGED <<file, engineServers>>
       \/ \E servers \in LiveSets :
             /\ servers # engineServers["claude"]
             /\ engineServers' = [engineServers EXCEPT !["claude"] = servers]
             /\ procs' = Append(procs, Called("edit", "", FALSE, "claude", "none",
                                              Done(file, engineServers')))
             /\ UNCHANGED file

SpecSession == InitSession /\ [][NextSession]_vars

(***************************************************************************)
(* Properties of the bootstrap (ensure_git_repo).                          *)
(***************************************************************************)
Ready(r) == r.hasGitDir /\ r.head > 0 /\ Len(r.commits) > 0

EnsureReturned == last.op = "ensure_git_repo"

\* the commands a call ran
Ran(calls) == { calls[k].cmd : k \in 1..Len(calls) }

\* the outcome of command cmd in the last call; "none" if it was not run
Out(cmd) ==
    IF \E k \in 1..Len(last.calls) : last.calls[k].cmd = cmd
    THEN (CHOOSE c \in { last.calls[k] : k \in 1..Len(last.calls) } : c.cmd = cmd).out
    ELSE "none"

Failed(cmd) == Out(cmd) \in {"spawn", "exit", "utf8"}

\* the gateway failed no command of the last call
FaultFree == \A k \in 1..Len(last.calls) : last.calls[k].fault = "ok"

\* C1: whenever ensure_git_repo returns success from a path with no commits
\* whose working tree holds the files F, the repository is Ready and the
\* tree of the first (bootstrap) commit contains every file of F.
C1_NoDataLoss ==
    (EnsureReturned /\ last.res = "Ok" /\ last.pre.commits = <<>>)
        => /\ Ready(repo)
           /\ last.pre.workTree \subseteq repo.commits[1].tree

\* C2: when every gateway call succeeds, two consecutive ensure_git_repo
\* calls both return success and the second creates no commit: the history
\* and head after the second call are those after the first.
C2_Idempotent ==
    (EnsureReturned /\ FaultFree)
        => LET second == ensure_git_repo(repo, NoFaults)
           IN  /\ last.res = "Ok"
               /\ second.res = "Ok"
               /\ second.repo.commits = repo.commits
               /\ second.repo.head = repo.head
               /\ "commit" \notin Ran(second.calls)

\* a first call that bootstrapped an Absent path holding files, without faults
C2_Witness ==
    /\ EnsureReturned /\ FaultFree
    /\ ~last.pre.hasGitDir /\ last.pre.workTree # {}
    /\ Len(repo.commits) = 1
    /\ ensure_git_repo(repo, NoFaults).res = "Ok"

\* C3: ensure_git_repo on a Ready repository returns success and has no side
\* effect (no init, no configuration, no staging, no commit; head, history
\* and index unchanged), whatever the gateway answers to rev-parse HEAD.
C3_ReadyNoSideEffects ==
    (EnsureReturned /\ Ready(last.pre))
        => /\ last.res = "Ok"
           /\ Ran(last.calls) = {"rev-parse"}
           /\ repo = last.pre

\* C4: when ensure_git_repo succeeds on a path that has a store directory but
\* no commits, it has not run store initialization and the history holds
\* exactly one commit, the bootstrap commit, so the repository is Ready; the
\* commit is created even when nothing is staged.
C4_EmptyStoreBootstrap ==
    (EnsureReturned /\ last.pre.hasGitDir /\ last.pre.commits = <<>>)
        => /\ last.res = "Ok"
                => /\ "init" \notin Ran(last.calls)
                   /\ Len(repo.commits) = 1
                   /\ repo.commits[1].msg = BootstrapMessage
                   /\ repo.head = 1
                   /\ Ready(repo)
           /\ (\E k \in 1..Len(last.calls) :
                   last.calls[k].cmd = "commit" /\ last.calls[k].fault = "ok")
                => last.res = "Ok"

\* a bootstrap of an existing empty store with an empty working tree
C4_Witness ==
    /\ EnsureReturned /\ last.res = "Ok"
    /\ last.pre.hasGitDir /\ last.pre.commits = <<>> /\ last.pre.workTree = {}
    /\ Len(repo.commits) = 1 /\ repo.commits[1].tree = {}

\* C5 (as claimed): on a non-Ready path ensure_git_repo returns an error iff
\* store initialization or the initial commit fails; a failure of identity
\* configuration or of staging, spawn failure or non-zero exit, never aborts:
\* the commit is still attempted and its outcome alone decides the result.
C5_FatalSplit ==
    (EnsureReturned /\ ~Ready(last.pre))
        => /\ last.res = "Err" <=> (Failed("init") \/ Failed("commit"))
           /\ (Failed("config user.name") \/ Failed("config user.email")
                 \/ Failed("add"))
                => /\ Out("commit") # "none"
                   /\ last.res = "Ok" <=> Out("commit") = "ok"

\* C5 (amended): on a non-Ready path ensure_git_repo returns an error iff
\* store initialization fails, the staging process cannot be spawned, or the
\* initial commit fails; a failure of identity configuration (of either kind)
\* or a non-zero exit of staging never aborts: the commit is still attempted
\* and its outcome alone decides the result.
C5_FatalSplitAmended ==
    (EnsureReturned /\ ~Ready(last.pre))
        => /\ last.res = "Err"
                <=> (Failed("init") \/ Out("add") = "spawn" \/ Failed("commit"))
           /\ ((Failed("config user.name") \/ Failed("config user.email")
                  \/ Out("add") = "exit") /\ Out("add") # "spawn")
                => /\ Out("commit") # "none"
                   /\ last.res = "Ok" <=> Out("commit") = "ok"

\* identity configuration fails both ways, staging exits non-zero, and the
\* commit still runs and decides
C5_Witness ==
    /\ EnsureReturned /\ ~Ready(last.pre)
    /\ Out("config user.name") = "spawn" /\ Out("config user.email") = "exit"
    /\ Out("add") = "exit" /\ Out("commit") = "ok" /\ last.res = "Ok"

(***************************************************************************)
(* Properties of the reset-safety classifier (check_reset_safety).         *)
(***************************************************************************)
\* a verdict was returned
Verdict == last.op = "check_reset_safety" /\ last.res = "Ok"

\* the id rev-parse HEAD resolves to
HeadId == CommitId(repo.head)

\* the subjects of the commits of the range (target, head], newest first
RangeSubjects ==
    LET range == GitRange(repo, last.args.target, HeadId)
    IN  [k \in 1..Len(range) |-> repo.commits[range[k]].msg]

InRange(P(_)) ==
    LET subjects == RangeSubjects
    IN  \E k \in 1..Len(subjects) : P(subjects[k])
AllInRange(P(_)) ==
    LET subjects == RangeSubjects
    IN  \A k \in 1..Len(subjects) : P(subjects[k])

\* the markers of the engines: lines 427-437
CarriesMarker(engine, subject) ==
    CASE engine = "claude" -> Contains(subject, "[Claude")
      [] engine = "codex"  -> Contains(subject, "[Codex]")
      [] engine = "gemini" -> Contains(subject, "[Gemini]")
      [] OTHER             -> FALSE

KnownEngines == {"claude", "codex", "gemini"}

CarriesAnyMarker(subject) == \E e \in KnownEngines : CarriesMarker(e, subject)

CarriesOwnMarker(subject) == CarriesMarker(last.args.engine, subject)

MentionsMerge(subject) == Contains(ToLowercase(subject), "merge")

\* C6: for every verdict with head # target, safeToProceed equals
\* (not hasOtherEngineCommits and not hasUserCommits and commitsToLose <= 5);
\* for each engine of claude, codex, gemini a range of at most 5 commits that
\* all carry that engine's marker is safe to proceed.
C6_VerdictFormula ==
    (Verdict /\ last.args.target # HeadId)
        => /\ last.info.safe_to_proceed
                <=> (/\ ~last.info.has_other_engine_commits
                     /\ ~last.info.has_user_commits
                     /\ last.info.commits_to_lose <= 5)
           /\ (/\ last.args.engine \in KnownEngines
               /\ Len(RangeSubjects) <= 5
               /\ AllInRange(CarriesOwnMarker))
                => last.info.safe_to_proceed

\* claude rolls back five of its own commits, one under the legacy marker
C6_Witness ==
    /\ Verdict /\ last.args.engine = "claude"
    /\ Len(RangeSubjects) = 5
    /\ AllInRange(CarriesOwnMarker)
    /\ InRange(LAMBDA m : Contains(m, "[Claude Workbench]"))
    /\ InRange(LAMBDA m : Contains(m, "[Claude Code]"))
    /\ last.info.safe_to_proceed

\* C7 (as claimed): whenever safeToProceed is true, every commit of the range
\* (target, head] carries the marker of the requesting engine and the range
\* holds at most 5 commits.
C7_SafeOnlyOwnCommits ==
    (Verdict /\ last.info.safe_to_proceed)
        => /\ AllInRange(CarriesOwnMarker)
           /\ Len(RangeSubjects) <= 5

\* C7 (amended): whenever safeToProceed is true, every commit of the range
\* whose subject line is not blank carries the marker of the requesting
\* engine or has "merge" (in any case) in its subject, and the range holds at
\* most 5 commits.
C7_SafeOnlyOwnOrMergeCommits ==
    (Verdict /\ last.info.safe_to_proceed)
        => /\ AllInRange(LAMBDA m :
                Trim(m) # "" => (CarriesOwnMarker(m) \/ MentionsMerge(m)))
           /\ Len(RangeSubjects) <= 5

\* a safe verdict over own commits and a merge commit
C7_Witness ==
    /\ Verdict /\ last.info.safe_to_proceed
    /\ Len(RangeSubjects) > 1
    /\ InRange(CarriesOwnMarker)
    /\ InRange(LAMBDA m : MentionsMerge(m) /\ ~CarriesAnyMarker(m))

\* C8: for every range that holds a commit whose subject carries no engine
\* marker and no "merge", hasUserCommits is true and safeToProceed false;
\* hasUserCommits is false only when every unmarked subject of the range has
\* "merge" in it.  For every subject a commit can have.
C8_UserCommitDetection ==
    (Verdict /\ last.args.target # HeadId)
        => /\ InRange(LAMBDA m : ~CarriesAnyMarker(m) /\ ~MentionsMerge(m))
                => (last.info.has_user_commits /\ ~last.info.safe_to_proceed)
           /\ ~last.info.has_user_commits
                => AllInRange(LAMBDA m : ~CarriesAnyMarker(m) => MentionsMerge(m))

\* C9: for every requesting engine and every range that holds a commit whose
\* subject carries the marker of a different engine and none of the
\* requesting engine, hasOtherEngineCommits is true and safeToProceed false,
\* whatever commitsToLose is; when the requesting engine is none of claude,
\* codex, gemini, every engine-marked commit counts as other-engine.
C9_OtherEngineDetection ==
    Verdict
        => /\ InRange(LAMBDA m : CarriesAnyMarker(m) /\ ~CarriesOwnMarker(m))
                => (last.info.has_other_engine_commits /\ ~last.info.safe_to_proceed)
           /\ (last.args.engine \notin KnownEngines /\ InRange(CarriesAnyMarker))
                => (last.info.has_other_engine_commits /\ ~last.info.safe_to_proceed)

\* an engine that is none of the three asks about a single codex commit
C9_Witness ==
    /\ Verdict /\ last.args.engine \notin KnownEngines
    /\ Len(RangeSubjects) = 1
    /\ InRange(LAMBDA m : CarriesMarker("codex", m))
    /\ last.info.has_other_engine_commits /\ ~last.info.safe_to_proceed
    /\ last.info.commits_to_lose = 1

ZeroLossVerdict ==
    [commits_to_lose |-> 0, has_other_engine_commits |-> FALSE,
     has_user_commits |-> FALSE, commits_summary |-> <<>>,
     safe_to_proceed |-> TRUE, warning |-> None]

\* C10: every verdict with commitsToLose = 0 has safeToProceed true and no
\* warning; when the resolved head equals target the verdict is the
\* zero-loss verdict and neither the count query nor the log query is run.
C10_ZeroLossIsSafe ==
    Verdict
        => /\ last.info.commits_to_lose = 0
                => (last.info.safe_to_proceed /\ last.info.warning = None)
           /\ last.args.target = HeadId
                => (last.info = ZeroLossVerdict /\ Ran(last.calls) = {"rev-parse"})

\* the target is the head of a history of several commits
C10_Witness ==
    /\ Verdict /\ last.args.target = HeadId /\ repo.head > 1
    /\ last.info = ZeroLossVerdict /\ Ran(last.calls) = {"rev-parse"}

\* the subjects the log query handed to the classification
FetchedSubjects == SelectNonBlank(RangeSubjects)

CountOf(P(_), subjects) == Cardinality({ k \in 1..Len(subjects) : P(subjects[k]) })

\* C11: in every verdict the warning is None exactly when safeToProceed is
\* true; an unsafe verdict's warning is not empty and is, in this order and
\* joined by the separator, the other-engine part with the number of
\* other-engine subjects iff hasOtherEngineCommits, the user-commit part with
\* the number of user subjects iff hasUserCommits, and the large-rollback
\* part with commitsToLose iff commitsToLose > 5 and neither flag is set.
C11_WarningMatchesVerdict ==
    Verdict
        => LET v == last.info
               others == CountOf(LAMBDA m : CarriesAnyMarker(m) /\ ~CarriesOwnMarker(m),
                                 FetchedSubjects)
               users == CountOf(LAMBDA m : ~CarriesAnyMarker(m) /\ ~MentionsMerge(m),
                                FetchedSubjects)
               parts == (IF v.has_other_engine_commits
                         THEN <<OtherEngineWarning(others)>> ELSE <<>>)
                     \o (IF v.has_user_commits
                         THEN <<UserCommitWarning(users)>> ELSE <<>>)
                     \o (IF v.commits_to_lose > 5 /\ ~v.has_other_engine_commits
                              /\ ~v.has_user_commits
                         THEN <<LargeRollbackWarning(v.commits_to_lose)>> ELSE <<>>)
           IN  /\ v.warning = None <=> v.safe_to_proceed
               /\ ~v.safe_to_proceed
                    => /\ v.warning.some
                       /\ v.warning.text # ""
                       /\ parts # <<>>
                       /\ v.warning.text = Join(parts, WarningSeparator)

\* a deep rollback over other-engine and user commits: two parts, no depth part
C11_Witness ==
    /\ Verdict /\ ~last.info.safe_to_proceed
    /\ last.info.commits_to_lose > 5
    /\ last.info.has_other_engine_commits /\ last.info.has_user_commits
    /\ last.info.warning.some
    /\ Contains(last.info.warning.text, WarningSeparator)
    /\ ~Contains(last.info.warning.text, LargeRollbackWarning(last.info.commits_to_lose))

IsOtherEngineSubject(m) == CarriesAnyMarker(m) /\ ~CarriesOwnMarker(m)
IsUserSubject(m) == ~CarriesAnyMarker(m) /\ ~MentionsMerge(m)

\* C12: the returned summary is the first min(10, n) of the n fetched
\* subjects, so it never holds more than 10, while hasOtherEngineCommits,
\* hasUserCommits and the counts of the warning are computed over all n; a
\* user or other-engine subject at position 11 or later makes the verdict
\* unsafe.
C12_SummaryCap ==
    (Verdict /\ last.args.target # HeadId)
        => LET v == last.info
               fetched == FetchedSubjects
               n == Len(fetched)
               kept == IF n < 10 THEN n ELSE 10
           IN  /\ Len(v.commits_summary) = kept
               /\ Len(v.commits_summary) <= 10
               /\ \A k \in 1..kept : v.commits_summary[k] = fetched[k]
               /\ v.has_other_engine_commits
                    <=> \E k \in 1..n : IsOtherEngineSubject(fetched[k])
               /\ v.has_user_commits <=> \E k \in 1..n : IsUserSubject(fetched[k])
               /\ v.has_other_engine_commits
                    => Contains(v.warning.text,
                          OtherEngineWarning(CountOf(IsOtherEngineSubject, fetched)))
               /\ v.has_user_commits
                    => Contains(v.warning.text,
                          UserCommitWarning(CountOf(IsUserSubject, fetched)))
               /\ (\E k \in 11..n :
                      IsOtherEngineSubject(fetched[k]) \/ IsUserSubject(fetched[k]))
                    => ~v.safe_to_proceed

\* eleven subjects fetched, ten kept, and the only user commit is the eleventh
C12_Witness ==
    /\ Verdict
    /\ Len(FetchedSubjects) = 11
    /\ Len(last.info.commits_summary) = 10
    /\ IsUserSubject(FetchedSubjects[11])
    /\ \A k \in 1..10 : ~IsUserSubject(FetchedSubjects[k])
    /\ last.info.has_user_commits /\ ~last.info.safe_to_proceed
    /\ last.info.warning = Some(UserCommitWarning(1))

(***************************************************************************)
(* Properties of git_commit_changes and git_stash_save.                    *)
(***************************************************************************)
CommitReturned == last.op = "git_commit_changes"

\* nothing to commit: working tree and index are those of head
Clean(r) == r.workTree = HeadTree(r) /\ r.index = HeadTree(r)

HistoryUnchanged == repo.commits = last.pre.commits /\ repo.head = last.pre.head

\* the call put exactly one commit, with its message, on the previous head
OneCommitOnTop ==
    /\ Len(repo.commits) = Len(last.pre.commits) + 1
    /\ SubSeq(repo.commits, 1, Len(last.pre.commits)) = last.pre.commits
    /\ repo.commits[Len(repo.commits)].msg = last.args.message
    /\ repo.commits[Len(repo.commits)].parent = last.pre.head
    /\ repo.head = Len(repo.commits)

\* C13 (as claimed): for every git_commit_changes call on a Ready repository:
\* on a clean working tree it returns Ok(false) and leaves head and history
\* unchanged; it returns Ok(true) exactly when it created one new commit with
\* the given message on top of the previous head; when it returns an error
\* it created no commit.
C13_CommitResultMatchesHistory ==
    (CommitReturned /\ Ready(last.pre))
        => /\ Clean(last.pre)
                => (last.res = "Ok" /\ ~last.flag /\ HistoryUnchanged)
           /\ (last.res = "Ok" /\ last.flag) <=> OneCommitOnTop
           /\ last.res = "Err" => HistoryUnchanged

\* C13 (amended): as claimed, except that a call on a clean working tree
\* returns Ok(false) only when its status query does not fail; when the
\* status query fails the call returns an error; in both cases head and
\* history are unchanged.
C13_CommitResultMatchesHistoryAmended ==
    (CommitReturned /\ Ready(last.pre))
        => /\ Clean(last.pre)
                => /\ HistoryUnchanged
                   /\ ~Failed("status") => (last.res = "Ok" /\ ~last.flag)
                   /\ Failed("status") => last.res = "Err"
           /\ (last.res = "Ok" /\ last.flag) <=> OneCommitOnTop
           /\ last.res = "Err" => HistoryUnchanged
           /\ (last.res = "Ok" /\ ~last.flag) => HistoryUnchanged

\* a second call right after a call that committed: nothing left to commit
C13_Witness ==
    /\ CommitReturned /\ Ready(last.pre) /\ Clean(last.pre)
    /\ Len(last.pre.commits) = 2
    /\ last.pre.commits[2].msg \in CommitMessages
    /\ last.res = "Ok" /\ ~last.flag /\ HistoryUnchanged

StashReturned == last.op = "git_stash_save"

Mutators == {"upsert_server", "remove_server", "set_server_enabled"}

Mutated == last.op \in Mutators

\* what get_server(id) answers on file f when the file can be read
Lookup(f, id) == get_server(f, NoLive, id, "ok")

\* the mapping file f holds, for a file that reads without error
Mapping(f) == read_registry(f, "ok").registry

Readable(f) == read_registry(f, "ok").res = "Ok"

\* C15: the registry behaves as a map.  From an absent or empty file every
\* id is "not found"; after a successful upsert of id, get_server(id)
\* returns the id, name, server and enabled of that upsert; after a
\* successful remove of id it returns "not found"; after a successful
\* set-enabled it returns the entry as it was with the new flag ("not found"
\* if there was none); and no operation on id changes what get_server
\* answers for another id.
C15_RegistryIsAMap ==
    /\ file \in {AbsentFile, EmptyFile}
            => \A id \in ServerIds :
                  Lookup(file, id).res = "Ok" /\ Lookup(file, id).found = NotFound
    /\ (Mutated /\ Readable(last.preFile))
            => LET id == last.args.id
                   before == Lookup(last.preFile, id).found
                   after == Lookup(file, id)
               IN  /\ (last.res = "Ok" /\ last.op = "upsert_server")
                        => /\ after.res = "Ok"
                           /\ after.found = Found(RegistryEntry(id, last.args.name,
                                                last.args.server, last.args.enabled))
                   /\ (last.res = "Ok" /\ last.op = "remove_server")
                        => (after.res = "Ok" /\ after.found = NotFound)
                   /\ (last.res = "Ok" /\ last.op = "set_server_enabled")
                        => /\ after.res = "Ok"
                           /\ after.found =
                                IF before.some
                                THEN Found([before.entry EXCEPT !.enabled = last.args.enabled])
                                ELSE NotFound
                   /\ \A other \in ServerIds \ {id} :
                         Lookup(file, other).res = "Ok"
                            => Lookup(file, other).found
                                  = Lookup(last.preFile, other).found

ListReturned == last.op = "get_engine_servers_with_status" /\ last.res = "Ok"

SyncReturned == last.op = "sync_registry_to_engine" /\ last.res = "Ok"

\* C17: after a successful sync_registry_to_engine(engine) the live set
\* importFrom reads back is the mapping id -> stored specification of exactly
\* the persisted entries with enabled = true; an id the engine had enabled
\* that is not enabled in the registry is gone; the registry file is as it
\* was.
C17_SyncPushesEnabled ==
    SyncReturned
        => LET R == Mapping(last.preFile)
               back == import_from_app(engineServers, last.args.engine, "ok")
           IN  /\ back.res = "Ok"
               /\ DOMAIN back.servers = { id \in DOMAIN R : R[id].enabled }
               /\ \A id \in DOMAIN back.servers : back.servers[id] = R[id].server
               /\ \A id \in DOMAIN last.preLive[last.args.engine] :
                     (id \notin DOMAIN R \/ ~R[id].enabled)
                        => id \notin DOMAIN back.servers
               /\ file = last.preFile

\* the engine had a server the registry holds disabled, and lacked one the
\* registry holds enabled
C17_Witness ==
    /\ SyncReturned
    /\ \E a, b \in ServerIds :
          /\ a # b
          /\ a \in DOMAIN Mapping(last.preFile) /\ Mapping(last.preFile)[a].enabled
          /\ b \in DOMAIN Mapping(last.preFile) /\ ~Mapping(last.preFile)[b].enabled
          /\ DOMAIN last.preLive[last.args.engine] = {b}
          /\ DOMAIN engineServers[last.args.engine] = {a}

\* the mapping the last mutating call set out to write
Intended ==
    LET R == Mapping(last.preFile)
        id == last.args.id
    IN  CASE last.op = "upsert_server" ->
                Insert(R, id, RegistryEntry(id, last.args.name, last.args.server,
                                            last.args.enabled))
          [] last.op = "remove_server" -> Remove(R, id)
          [] OTHER -> [R EXCEPT ![id].enabled = last.args.enabled]

\* C18: when a write_registry call fails part-way, a subsequent
\* read_registry returns the full mapping from before the write, or the full
\* mapping being written, or an error; never any other mapping.
C18_WriteIsAtomic ==
    (Mutated /\ last.w.kind = "partial")
        => LET rd == read_registry(file, "ok")
           IN  \/ rd.res = "Err"
               \/ rd.registry = Mapping(last.preFile)
               \/ rd.registry = Intended

(***************************************************************************)
(* Properties of concurrent callers.                                       *)
(***************************************************************************)
AllDone == \A c \in DOMAIN procs : procs[c].pc = "done"

BootstrapCommits ==
    Cardinality({ k \in 1..Len(repo.commits) : repo.commits[k].msg = BootstrapMessage })

\* C19: for every interleaving of two ensure_git_repo calls on one path with
\* no commits, the store is initialized at most once, and once a call has
\* returned success the history holds exactly one bootstrap commit.
C19_BootstrapOnce ==
    /\ procs[1].inits + procs[2].inits <= 1
    /\ (\E c \in Callers : procs[c].pc = "done" /\ procs[c].res = "Ok")
            => BootstrapCommits = 1
    /\ BootstrapCommits <= 1

BothOk == AllDone /\ \A c \in Callers : procs[c].res = "Ok"

\* C20: two upsert_server calls on distinct ids that ran one after the other
\* and both succeeded leave a registry that holds both ids, each with the
\* entry its call inserted (an interleaving that loses one of them is the
\* witness).
C20_SerializedKeepsBoth ==
    (BothOk /\ \A c \in Callers : ~procs[c].overlapped)
        => /\ Readable(file)
           /\ \A c \in Callers :
                 /\ Target(c) \in DOMAIN Mapping(file)
                 /\ Mapping(file)[Target(c)] = procs[c].entry

\* overlapping calls that both succeeded and left one of the two ids only
C20_Witness ==
    /\ BothOk
    /\ \E c \in Callers : procs[c].overlapped
    /\ Readable(file)
    /\ Cardinality(DOMAIN Mapping(file) \cap {Target(c) : c \in Callers}) = 1

(***************************************************************************)
(* Properties of a session on the registry.                                *)
(***************************************************************************)
\* the k-th call from the end of the session
Recent(k) == procs[Len(procs) - k]

\* the session ends with a successful sync to an engine and, right after
\* it, a listing of the same engine
ListedAfterSync ==
    /\ Len(procs) >= 2
    /\ Recent(1).op = "sync_registry_to_engine" /\ Recent(1).res = "Ok"
    /\ Recent(0).op = "get_engine_servers_with_status" /\ Recent(0).res = "Ok"
    /\ Recent(0).engine = Recent(1).engine

\* the position of id in a listing (0 if it is not listed)
Listed(servers, id) ==
    IF \E k \in 1..Len(servers) : servers[k].id = id
    THEN CHOOSE k \in 1..Len(servers) : servers[k].id = id ELSE 0

\* C21: a listing right after a successful sync to the same engine contains
\* exactly the registry's ids, each once and with the persisted enabled flag;
\* when the sync itself came right after set_server_enabled(id, false) on an
\* entry, id is listed as disabled with the specification the registry holds.
C21_DisabledStayListed ==
    ListedAfterSync =>
        LET servers == Recent(0).servers
            registry == Mapping(file)
        IN  /\ { servers[k].id : k \in 1..Len(servers) } = DOMAIN registry
            /\ Len(servers) = Cardinality(DOMAIN registry)
            /\ \A k \in 1..Len(servers) :
                    servers[k].id \in DOMAIN registry
                        => servers[k].enabled = registry[servers[k].id].enabled
            /\ (/\ Len(procs) >= 3
                /\ Recent(2).op = "set_server_enabled" /\ Recent(2).res = "Ok"
                /\ ~Recent(2).enabled
                /\ Recent(2).id \in DOMAIN registry)
                   => LET k == Listed(servers, Recent(2).id)
                      IN  /\ k # 0
                          /\ ~servers[k].enabled
                          /\ servers[k].spec = registry[Recent(2).id].server

(***************************************************************************)
(* Properties of calls on an id the registry does not hold.                *)
(***************************************************************************)
\* the call in `last` named an id that the registry did not hold
AbsentId == last.args.id \notin DOMAIN Mapping(last.preFile)

\* the call in `last` could read the registry
ReadOk == last.io = "ok" /\ Readable(last.preFile)

\* C22 (as stated): remove_server and set_server_enabled on an absent id
\* return success and leave the file as it was, get_server on an absent id
\* returns "not found" as a success, and the file changes only when an entry
\* was removed or its flag changed.
C22_NotFoundIsNoOp ==
    /\ (last.op \in {"remove_server", "set_server_enabled"} /\ AbsentId)
            => last.res = "Ok" /\ file = last.preFile
    /\ (last.op = "get_server" /\ AbsentId)
            => last.res = "Ok" /\ last.found = NotFound
    /\ (last.op = "remove_server" /\ file # last.preFile) => ~AbsentId
    /\ (last.op = "set_server_enabled" /\ file # last.preFile)
            => /\ ~AbsentId
               /\ Mapping(last.preFile)[last.args.id].enabled # last.args.enabled

\* C22 (amended): on an absent id remove_server and set_server_enabled never
\* touch the file and get_server finds nothing; the three return success
\* exactly when the registry could be read; the file changes only when the
\* id was in the registry, whether or not the flag given differs from the
\* stored one.
C22_NotFoundIsNoOpAmended ==
    /\ (last.op \in {"remove_server", "set_server_enabled"} /\ AbsentId)
            => /\ file = last.preFile
               /\ last.res = "Ok" <=> ReadOk
    /\ (last.op = "get_server" /\ AbsentId)
            => /\ file = last.preFile
               /\ last.res = "Ok" <=> ReadOk
               /\ last.found = NotFound
    /\ (last.op \in {"remove_server", "set_server_enabled"} /\ file # last.preFile)
            => ~AbsentId /\ ReadOk

\* remove_server on an absent id of a registry that holds another entry
C22_Witness ==
    /\ last.op = "remove_server"
    /\ AbsentId
    /\ DOMAIN Mapping(last.preFile) # {}
    /\ last.res = "Ok"
    /\ file = last.preFile

====
